---- MODULE Spec2Model ----
(***************************************************************************)
(* Rent-vs-buy calculator: the projection engine of src/utils/             *)
(* calculations.ts (calculateMortgagePayment, calculateRentVsBuy,          *)
(* runMonteCarloSimulation, runSensitivityAnalysis) and the calculator     *)
(* store and component that call it.                                       *)
(*                                                                         *)
(* Number representation.  The program computes in IEEE doubles; the model *)
(* computes in fixed point:                                                *)
(*   - money is an integer number of mills (1/1000 dollar), so that the    *)
(*     program's "round to 2 decimal places" (Math.round(x*100)/100) is a  *)
(*     real operation on the model's values (Round2);                      *)
(*   - rates are an integer number of tenths of a percent (70 = 7.0%), so  *)
(*     "x * (rate / 100)" is x * rate / 1000 (PerMille);                   *)
(*   - Math.pow is computed in fixed point with 16 decimal places.          *)
(* A product that the program leaves unrounded is floored to the mill.     *)
(***************************************************************************)
EXTENDS Integers, Sequences, FiniteSets, TLC

VARIABLES pay, eng, mc, sens, app

vars == <<pay, eng, mc, sens, app>>

(***************************************************************************)
(* Bounds of the model.                                                    *)
(***************************************************************************)
MaxHorizon == 3
MaxSims == 2
MaxSaves == 2

(***************************************************************************)
(* Arithmetic.                                                             *)
(***************************************************************************)
Mills == 1000

Max(a, b) == IF a >= b THEN a ELSE b
Min(a, b) == IF a <= b THEN a ELSE b

\* Math.round(x * 100) / 100 on a value in mills: floor(x + half a cent) to
\* the cent (Math.round rounds halves towards +infinity).
Round2(x) == ((x + 5) \div 10) * 10

\* x * (rate / 100) for a rate in tenths of a percent, floored to the mill.
PerMille(x, rate) == (x \div 1000) * rate + ((x % 1000) * rate) \div 1000

(***************************************************************************)
(* Multi-precision naturals for Math.pow and the division of the payment   *)
(* formula: a sequence of limbs in base Base, least significant first.     *)
(* A fixed-point number has FracLimbs fractional limbs (16 decimal places, *)
(* the precision of a double).                                             *)
(***************************************************************************)
Base == 10000
FracLimbs == 4
MaxInt == 2147483647

Limb(a, i) == IF i <= Len(a) THEN a[i] ELSE 0

RECURSIVE BigFromInt(_)
BigFromInt(n) == IF n = 0 THEN << >> ELSE <<n % Base>> \o BigFromInt(n \div Base)

RECURSIVE Propagate(_, _, _)
Propagate(cols, k, carry) ==
  IF k > Len(cols)
  THEN IF carry = 0 THEN << >>
       ELSE <<carry % Base>> \o Propagate(cols, k, carry \div Base)
  ELSE <<(cols[k] + carry) % Base>>
         \o Propagate(cols, k + 1, (cols[k] + carry) \div Base)

BigAdd(a, b) ==
  Propagate([k \in 1 .. Max(Len(a), Len(b)) |-> Limb(a, k) + Limb(b, k)], 1, 0)

RECURSIVE ColSum(_, _, _, _)
ColSum(a, b, k, i) ==
  IF i > Len(a) \/ i > k THEN 0
  ELSE a[i] * Limb(b, k + 1 - i) + ColSum(a, b, k, i + 1)

BigMul(a, b) ==
  IF a = << >> \/ b = << >> THEN << >>
  ELSE Propagate([k \in 1 .. (Len(a) + Len(b) - 1) |-> ColSum(a, b, k, 1)], 1, 0)

\* a <= b
RECURSIVE BigLeqFrom(_, _, _)
BigLeqFrom(a, b, i) ==
  IF i = 0 THEN TRUE
  ELSE IF Limb(a, i) # Limb(b, i) THEN Limb(a, i) < Limb(b, i)
  ELSE BigLeqFrom(a, b, i - 1)

BigLeq(a, b) == BigLeqFrom(a, b, Max(Len(a), Len(b)))

\* floor(a / d) for a small divisor d, limb by limb from the top
RECURSIVE BigDivSmall(_, _, _, _)
BigDivSmall(a, i, rem, d) ==
  IF i = 0 THEN << >>
  ELSE BigDivSmall(a, i - 1, (rem * Base + a[i]) % d, d)
         \o <<(rem * Base + a[i]) \div d>>

\* floor(num / den) for a quotient below MaxInt: bisection on the quotient,
\* with lo * den <= num < hi * den.
RECURSIVE BigDivSearch(_, _, _, _)
BigDivSearch(num, den, lo, hi) ==
  IF hi - lo <= 1 THEN lo
  ELSE IF BigLeq(BigMul(BigFromInt(lo + (hi - lo) \div 2), den), num)
  THEN BigDivSearch(num, den, lo + (hi - lo) \div 2, hi)
  ELSE BigDivSearch(num, den, lo, hi - ((hi - lo) - (hi - lo) \div 2))

FxOne == [k \in 1 .. (FracLimbs + 1) |-> IF k = FracLimbs + 1 THEN 1 ELSE 0]

\* the product of two fixed-point numbers, truncated to FracLimbs limbs
FxMul(a, b) ==
  LET p == BigMul(a, b)
  IN  IF Len(p) <= FracLimbs THEN << >> ELSE SubSeq(p, FracLimbs + 1, Len(p))

\* Math.pow(base, n) for a fixed-point base and an integer n >= 0
RECURSIVE Pow(_, _)
Pow(base, n) ==
  IF n = 0 THEN FxOne
  ELSE LET h  == Pow(base, n \div 2)
           sq == FxMul(h, h)
       IN  IF Len(sq) = 0 THEN sq
           ELSE IF n % 2 = 1 THEN FxMul(sq, base) ELSE sq

(***************************************************************************)
(* calculateMortgagePayment (calculations.ts 5-21).                        *)
(***************************************************************************)
\* annualRate / 100 / 12 as a fixed-point number (annualRate in tenths of a
\* percent)
MonthlyRate(annualRate) ==
  BigDivSmall([k \in 1 .. (FracLimbs + 1) |->
                 IF k = FracLimbs + 1 THEN annualRate ELSE 0],
              FracLimbs + 1, 0, 12000)

\* Math.round(payment * 100) / 100 for
\*   payment = principal * (monthlyRate * pw) / (pw - 1),
\* in mills: with principal = p / 1000 and monthlyRate = t / 12000, the
\* payment in cents is p * t * pw / (120000 * (pw - 1)), and Math.round is
\* floor(x + 1/2).
RoundedPayment(principal, annualRate, termYears) ==
  LET monthlyRate == MonthlyRate(annualRate)
      numPayments == termYears * 12
      pw   == Pow(BigAdd(FxOne, monthlyRate), numPayments)
      \* pw - 1: drop the integer 1 from the top limb
      g    == [k \in 1 .. Len(pw) |->
                 IF k = FracLimbs + 1 THEN pw[k] - 1 ELSE pw[k]]
      pt   == BigMul(BigFromInt(principal), BigFromInt(annualRate))
      num  == BigAdd(BigMul(BigFromInt(2), BigMul(pt, pw)),
                     BigMul(BigFromInt(120000), g))
      den  == BigMul(BigFromInt(240000), g)
  IN  BigDivSearch(num, den, 0, MaxInt) * 10

calculateMortgagePayment(principal, annualRate, termYears) ==
  LET numPayments == termYears * 12
  IN  IF annualRate = 0 THEN principal \div numPayments
      ELSE RoundedPayment(principal, annualRate, termYears)

(***************************************************************************)
(* The payment primitive on its own: a caller that applies it to inputs    *)
(* drawn from bounded sets.                                                *)
(***************************************************************************)
PayPrincipals == {0, 2 * Mills, 1000 * Mills, 80000 * Mills, 400000 * Mills}
PayRates == {0, 35, 70, 100}
PayTerms == {1, 2, 15, 30} \cup (1 .. MaxHorizon)

PayIdle == [pc |-> "off", principal |-> 0, annualRate |-> 0, termYears |-> 1,
            result |-> 0]

PayInit ==
  \E p \in PayPrincipals, r \in PayRates, t \in PayTerms :
    pay = [pc |-> "call", principal |-> p, annualRate |-> r, termYears |-> t,
           result |-> 0]

PayReturn ==
  /\ pay.pc = "call"
  /\ pay' = [pay EXCEPT !.pc = "done",
               !.result = calculateMortgagePayment(pay.principal,
                                                   pay.annualRate,
                                                   pay.termYears)]
  /\ UNCHANGED <<eng, mc, sens, app>>

(***************************************************************************)
(* calculateRentVsBuy (calculations.ts 136-325).                           *)
(***************************************************************************)
\* breakEvenYear: number | null; years start at 1, so 0 stands for null.
Null == 0

SaltCap == 10000
standardDeduction == 29200

\* mortgageBalance / currentHomeValue > 0.8, for currentHomeValue > 0:
\* balance > floor(4 * value / 5) = value - ceil(value / 5).
LtvAbove80(mortgageBalance, currentHomeValue) ==
  mortgageBalance > currentHomeValue - ((currentHomeValue + 4) \div 5)

\* The 'rent' / 'buy' advantage of lines 258, 266, 267.
Advantage(rentNetWorth, buyNetWorth) ==
  IF rentNetWorth > buyNetWorth THEN "rent" ELSE "buy"

\* Lines 137-185: destructuring, constants and the loop's initial locals.
EngSetup(inputs) ==
  LET downPayment     == PerMille(inputs.homePrice, inputs.downPaymentPercent)
      loanAmount      == inputs.homePrice - downPayment
      monthlyMortgage == calculateMortgagePayment(loanAmount,
                           inputs.interestRate, inputs.loanTermYears)
      closingCosts    == PerMille(inputs.homePrice, inputs.closingCostsPercent)
  IN  [pc                      |-> "loop",
       inputs                  |-> inputs,
       downPayment             |-> downPayment,
       loanAmount              |-> loanAmount,
       annualMortgage          |-> monthlyMortgage * 12,
       hasPMI                  |-> inputs.downPaymentPercent < 200,
       buyUpfrontCosts         |-> downPayment + closingCosts
                                     + PerMille(inputs.homePrice, 10),
       rentUpfrontCosts        |-> inputs.currentRent * 2,
       yearlyProjections       |-> << >>,
       cumulativeRentCost      |-> 0,
       cumulativeOwnershipCost |-> 0,
       cumulativeTaxSavings    |-> 0,
       currentRentPayment      |-> inputs.currentRent * 12,
       mortgageBalance         |-> loanAmount,
       currentHomeValue        |-> inputs.homePrice,
       investmentValue         |-> downPayment,
       breakEvenYear           |-> Null,
       year                    |-> 1,
       result                  |-> [none |-> TRUE]]

\* BreakEvenAfter without the "breakEvenYear === null" guard of line 257:
\* every later flip overwrites the year.
BreakEvenAfter_Unguarded(breakEvenYear, year, yearlyProjections, rentNetWorth, buyNetWorth) ==
  IF year = 1 THEN breakEvenYear
  ELSE LET previousProjection == yearlyProjections[year - 1]
           previousAdvantage  == Advantage(previousProjection.rentNetWorth,
                                           previousProjection.buyNetWorth)
           currentAdvantage   == Advantage(rentNetWorth, buyNetWorth)
       IN  IF previousAdvantage # currentAdvantage THEN year ELSE breakEvenYear

\* Lines 255-274: the break-even year after the iteration of `year`.
BreakEvenAfter(breakEvenYear, year, yearlyProjections, rentNetWorth, buyNetWorth) ==
  IF breakEvenYear # Null THEN breakEvenYear
  ELSE IF year = 1 THEN Null
  ELSE LET previousProjection == yearlyProjections[year - 1]
           previousAdvantage  == Advantage(previousProjection.rentNetWorth,
                                           previousProjection.buyNetWorth)
           currentAdvantage   == Advantage(rentNetWorth, buyNetWorth)
       IN  IF previousAdvantage # currentAdvantage THEN year ELSE Null

\* DynamicPMI with ">= 0.8" for "> 0.8"
DynamicPMI_AtEighty(mortgageBalance, currentHomeValue, pmiRate) ==
  IF mortgageBalance * 5 >= currentHomeValue * 4
  THEN PerMille(mortgageBalance, pmiRate) ELSE 0

\* Line 215: PMI from the loan-to-value ratio at the start of the year.
DynamicPMI(mortgageBalance, currentHomeValue, pmiRate) ==
  IF LtvAbove80(mortgageBalance, currentHomeValue)
  THEN PerMille(mortgageBalance, pmiRate) ELSE 0

\* Lines 222-227: the balance after one year's amortization.
Amortize(mortgageBalance, annualMortgage, interestRate) ==
  LET interestPayment  == PerMille(mortgageBalance, interestRate)
      principalPayment == Min(annualMortgage - interestPayment, mortgageBalance)
  IN  Round2(Max(0, mortgageBalance - principalPayment))

\* HomeEquity without the rounding
HomeEquity_Unrounded(currentHomeValue, mortgageBalance) ==
  currentHomeValue - mortgageBalance

\* Line 231
HomeEquity(currentHomeValue, mortgageBalance) ==
  Round2(currentHomeValue - mortgageBalance)

\* BuyNetWorth with the sale already counted in the year before the last
BuyNetWorth_FromYearBefore(year, timeHorizonYears, netProceedsIfSold, homeEquity) ==
  IF year >= timeHorizonYears - 1 THEN netProceedsIfSold ELSE homeEquity

\* BuyNetWorth without the final-year case
BuyNetWorth_AlwaysEquity(year, timeHorizonYears, netProceedsIfSold, homeEquity) ==
  homeEquity

\* Line 249
BuyNetWorth(year, timeHorizonYears, netProceedsIfSold, homeEquity) ==
  IF year = timeHorizonYears THEN netProceedsIfSold ELSE homeEquity

\* TaxSavings without the SALT cap of line 235
TaxSavings_Uncapped(interestPayment, annualPropertyTax, otherDeductions, marginalTaxRate) ==
  LET totalDeductions == interestPayment + annualPropertyTax + otherDeductions
  IN  Max(0, PerMille(totalDeductions - standardDeduction * Mills,
                      marginalTaxRate))

\* Lines 233-240: the tax benefit of itemizing over the standard deduction
TaxSavings(interestPayment, annualPropertyTax, otherDeductions, marginalTaxRate) ==
  LET deductiblePropertyTax == Min(annualPropertyTax, SaltCap * Mills)
      totalDeductions ==
        interestPayment + deductiblePropertyTax + otherDeductions
  IN  Max(0, PerMille(totalDeductions - standardDeduction * Mills,
                      marginalTaxRate))

\* UpfrontInYear without the first-year test: every row records the costs.
UpfrontInYear_EveryYear(year, upfrontCosts) == upfrontCosts

\* year === 1 ? upfrontCosts : 0 (lines 282 and 294): the upfront costs
\* appear in the first row only.
UpfrontInYear(year, upfrontCosts) == IF year = 1 THEN upfrontCosts ELSE 0

\* TotalOwnershipCost without the mortgage payment, as for a paid-off loan
TotalOwnershipCost_NoMortgage(annualMortgage, annualPMI, annualPropertyTax, homeInsurance, annualMaintenance, hoaFees) ==
  annualPMI + annualPropertyTax + homeInsurance + annualMaintenance + hoaFees

\* Lines 199 and 217: the sum of the six components of a year's ownership
\* cost; the mortgage payment is added whatever the balance is.
TotalOwnershipCost(annualMortgage, annualPMI, annualPropertyTax, homeInsurance, annualMaintenance, hoaFees) ==
  annualMortgage + annualPMI + annualPropertyTax + homeInsurance
    + annualMaintenance + hoaFees

\* Accumulate with "=" for "+=": the year's amount replaces the sum.
Accumulate_Overwrite(cumulative, amount) == amount

\* Lines 191, 219, 241: cumulative += amount
Accumulate(cumulative, amount) == cumulative + amount

\* Lines 190-308: one iteration of the yearly loop, from the locals in e.
EngStep(e) ==
  LET in   == e.inputs
      year == e.year
      cumulativeRentCost ==
        Accumulate(e.cumulativeRentCost, e.currentRentPayment)
      \* lines 193-207: the renter's comparison cost and investment
      monthlyMortgageForComparison ==
        calculateMortgagePayment(e.loanAmount, in.interestRate, in.loanTermYears)
      annualMortgageForComparison == monthlyMortgageForComparison * 12
      annualPropertyTaxForComparison ==
        PerMille(e.currentHomeValue, in.propertyTaxRate)
      annualMaintenanceForComparison ==
        PerMille(e.currentHomeValue, in.maintenanceRate)
      annualPMIForComparison ==
        IF e.hasPMI THEN PerMille(e.loanAmount, in.pmiRate) ELSE 0
      totalAnnualOwnershipCostForComparison ==
        TotalOwnershipCost(annualMortgageForComparison,
          annualPMIForComparison, annualPropertyTaxForComparison,
          in.homeInsurance, annualMaintenanceForComparison, in.hoaFees)
      \* (total / 12 - rent / 12) * 12
      annualSavings ==
        totalAnnualOwnershipCostForComparison - e.currentRentPayment
      investmentValue ==
        PerMille(e.investmentValue, 1000 + in.investmentReturn) + annualSavings
      \* lines 209-219: the buy path's cost
      annualPropertyTax == PerMille(e.currentHomeValue, in.propertyTaxRate)
      annualMaintenance == PerMille(e.currentHomeValue, in.maintenanceRate)
      annualPMI == DynamicPMI(e.mortgageBalance, e.currentHomeValue, in.pmiRate)
      totalAnnualOwnershipCost ==
        TotalOwnershipCost(e.annualMortgage, annualPMI, annualPropertyTax,
          in.homeInsurance, annualMaintenance, in.hoaFees)
      cumulativeOwnershipCost ==
        Accumulate(e.cumulativeOwnershipCost, totalAnnualOwnershipCost)
      \* lines 221-231
      interestPayment == PerMille(e.mortgageBalance, in.interestRate)
      mortgageBalance ==
        Amortize(e.mortgageBalance, e.annualMortgage, in.interestRate)
      currentHomeValue ==
        PerMille(e.currentHomeValue, 1000 + in.homeAppreciationRate)
      homeEquity == HomeEquity(currentHomeValue, mortgageBalance)
      \* lines 233-241
      taxSavings ==
        TaxSavings(interestPayment, annualPropertyTax, in.otherDeductions,
                   in.marginalTaxRate)
      \* lines 243-253
      sellingCosts == PerMille(currentHomeValue, in.sellingCostsPercent)
      netProceedsIfSold == currentHomeValue - mortgageBalance - sellingCosts
      rentNetWorth == investmentValue - cumulativeRentCost
      buyNetWorth ==
        BuyNetWorth(year, in.timeHorizonYears, netProceedsIfSold, homeEquity)
      projection ==
        [year                    |-> year,
         rentPayment             |-> e.currentRentPayment,
         totalRentPaid           |-> cumulativeRentCost,
         rentUpfrontCosts        |-> UpfrontInYear(year, e.rentUpfrontCosts),
         mortgagePayment         |-> e.annualMortgage,
         pmiPayment              |-> annualPMI,
         propertyTax             |-> annualPropertyTax,
         insurance               |-> in.homeInsurance,
         maintenance             |-> annualMaintenance,
         hoa                     |-> in.hoaFees,
         totalOwnershipCost      |-> totalAnnualOwnershipCost,
         cumulativeOwnershipCost |-> cumulativeOwnershipCost,
         homeValue               |-> currentHomeValue,
         mortgageBalance         |-> mortgageBalance,
         homeEquity              |-> homeEquity,
         buyUpfrontCosts         |-> UpfrontInYear(year, e.buyUpfrontCosts),
         mortgageInterestPaid    |-> interestPayment,
         propertyTaxPaid         |-> annualPropertyTax,
         taxSavings              |-> taxSavings,
         investmentValue         |-> investmentValue,
         rentNetWorth            |-> rentNetWorth,
         buyNetWorth             |-> buyNetWorth,
         rentCashFlow            |-> 0 - e.currentRentPayment,
         buyCashFlow             |-> 0 - (totalAnnualOwnershipCost - taxSavings),
         sellingCosts            |-> sellingCosts,
         netProceedsIfSold       |-> netProceedsIfSold]
  IN  [e EXCEPT
         !.cumulativeRentCost      = cumulativeRentCost,
         !.investmentValue         = investmentValue,
         !.cumulativeOwnershipCost = cumulativeOwnershipCost,
         !.mortgageBalance         = mortgageBalance,
         !.currentHomeValue        = currentHomeValue,
         !.cumulativeTaxSavings    =
            Accumulate(e.cumulativeTaxSavings, taxSavings),
         !.breakEvenYear           =
            BreakEvenAfter(e.breakEvenYear, year, e.yearlyProjections,
                           rentNetWorth, buyNetWorth),
         !.yearlyProjections       = Append(e.yearlyProjections, projection),
         !.currentRentPayment      =
            PerMille(e.currentRentPayment, 1000 + in.rentGrowthRate),
         !.year                    = year + 1]

\* LoopContinues with "<" for "<=": the year of the horizon is left out.
LoopContinues_Exclusive(year, timeHorizonYears) == year < timeHorizonYears

\* Line 189: the loop condition year <= timeHorizonYears
LoopContinues(year, timeHorizonYears) == year <= timeHorizonYears

\* Line 314: the reduce over mortgageInterestPaid.
RECURSIVE SumInterest(_)
SumInterest(projections) ==
  IF projections = << >> THEN 0
  ELSE projections[1].mortgageInterestPaid + SumInterest(Tail(projections))

\* EngResult with the two sums taken from the final row alone
EngResult_FinalYearOnly(e) ==
  LET finalProjection == e.yearlyProjections[Len(e.yearlyProjections)]
  IN  [yearlyProjections  |-> e.yearlyProjections,
       breakEvenYear      |-> e.breakEvenYear,
       totalCostRent      |-> finalProjection.totalRentPaid + e.rentUpfrontCosts,
       totalCostBuy       |-> finalProjection.cumulativeOwnershipCost
                                + e.buyUpfrontCosts,
       netWorthDifference |-> finalProjection.buyNetWorth
                                - finalProjection.rentNetWorth,
       totalTaxSavings    |-> finalProjection.taxSavings,
       totalInterestPaid  |-> finalProjection.mortgageInterestPaid]

\* Lines 311-324, for a non-empty projection list.
EngResult(e) ==
  LET finalProjection == e.yearlyProjections[Len(e.yearlyProjections)]
  IN  [yearlyProjections  |-> e.yearlyProjections,
       breakEvenYear      |-> e.breakEvenYear,
       totalCostRent      |-> finalProjection.totalRentPaid + e.rentUpfrontCosts,
       totalCostBuy       |-> finalProjection.cumulativeOwnershipCost
                                + e.buyUpfrontCosts,
       netWorthDifference |-> finalProjection.buyNetWorth
                                - finalProjection.rentNetWorth,
       totalTaxSavings    |-> e.cumulativeTaxSavings,
       totalInterestPaid  |-> SumInterest(e.yearlyProjections)]

\* Finish with finalProjection?.x || 0 for finalProjection.x: an empty
\* projection list gives a result of zeros in place of the TypeError.
Finish_Lenient(e) ==
  IF e.yearlyProjections = << >>
  THEN [e EXCEPT !.pc = "done",
                 !.result = [yearlyProjections  |-> << >>,
                             breakEvenYear      |-> e.breakEvenYear,
                             totalCostRent      |-> e.rentUpfrontCosts,
                             totalCostBuy       |-> e.buyUpfrontCosts,
                             netWorthDifference |-> 0,
                             totalTaxSavings    |-> e.cumulativeTaxSavings,
                             totalInterestPaid  |-> 0]]
  ELSE [e EXCEPT !.pc = "done", !.result = EngResult(e)]

\* Lines 311-324 after the loop: finalProjection is undefined for an empty
\* list and reading finalProjection.totalRentPaid (line 319) throws a
\* TypeError; otherwise the result is returned.
Finish(e) ==
  IF e.yearlyProjections = << >>
  THEN [e EXCEPT !.pc = "threw"]
  ELSE [e EXCEPT !.pc = "done", !.result = EngResult(e)]

\* Lines 189-309: the loop from the locals in e to its exit.
RECURSIVE RunLoop(_)
RunLoop(e) ==
  IF LoopContinues(e.year, e.inputs.timeHorizonYears)
  THEN RunLoop(EngStep(e)) ELSE e

\* calculateRentVsBuy as a function of its inputs (timeHorizonYears >= 1).
calculateRentVsBuy(inputs) == EngResult(RunLoop(EngSetup(inputs)))

(***************************************************************************)
(* The inputs the engine is called with.                                   *)
(***************************************************************************)
\* defaultInputs of the calculator store
defaultInputs ==
  [homePrice           |-> 500000 * Mills,
   downPaymentPercent  |-> 200,
   currentRent         |-> 2500 * Mills,
   interestRate        |-> 70,
   loanTermYears       |-> 30,
   pmiRate             |-> 5,
   propertyTaxRate     |-> 12,
   homeInsurance       |-> 1200 * Mills,
   maintenanceRate     |-> 10,
   hoaFees             |-> 0,
   rentGrowthRate      |-> 35,
   investmentReturn    |-> 80,
   inflationRate       |-> 25,
   homeAppreciationRate |-> 35,
   timeHorizonYears    |-> 10,
   marginalTaxRate     |-> 240,
   otherDeductions     |-> 5000 * Mills,
   closingCostsPercent |-> 30,
   sellingCostsPercent |-> 60]

HomePrices == {360000 * Mills}
DownPaymentPercents == {100, 200, 800}
InterestRates == {0, 70}
LoanTerms == {1, 2, 30}
Horizons == (0 - 1) .. MaxHorizon
HomeAppreciationRates == {0 - 40, 33}
CurrentRents == {1000 * Mills, 2100 * Mills, 2500 * Mills}

\* a home bought at an ordinary price
OrdinaryInputs ==
  { [defaultInputs EXCEPT !.homePrice = hp, !.downPaymentPercent = dp,
       !.interestRate = ir, !.loanTermYears = lt, !.timeHorizonYears = th,
       !.homeAppreciationRate = ha, !.currentRent = cr] :
      hp \in HomePrices, dp \in DownPaymentPercents, ir \in InterestRates,
      lt \in LoanTerms, th \in Horizons, ha \in HomeAppreciationRates,
      cr \in CurrentRents }

\* a loan of a few dollars, whose monthly payment is a cent or two
SmallLoanInputs ==
  { [defaultInputs EXCEPT !.homePrice = 18 * Mills, !.downPaymentPercent = dp,
       !.interestRate = ir, !.loanTermYears = lt, !.timeHorizonYears = th,
       !.homeAppreciationRate = 0, !.currentRent = 1 * Mills,
       !.homeInsurance = 0, !.otherDeductions = 0] :
      dp \in DownPaymentPercents, ir \in InterestRates, lt \in LoanTerms,
      th \in Horizons }

\* a property tax above the SALT cap (3% of 360000 is 10800 a year)
HighTaxInputs ==
  { [defaultInputs EXCEPT !.homePrice = 360000 * Mills,
       !.propertyTaxRate = 30, !.homeAppreciationRate = 33,
       !.downPaymentPercent = dp, !.timeHorizonYears = th] :
      dp \in DownPaymentPercents, th \in Horizons }

\* a home with homeowners-association fees (the form's "Monthly HOA Fees")
HoaInputs ==
  { [defaultInputs EXCEPT !.homePrice = 360000 * Mills,
       !.hoaFees = 250 * Mills, !.homeAppreciationRate = 33,
       !.downPaymentPercent = dp, !.timeHorizonYears = th] :
      dp \in DownPaymentPercents, th \in Horizons }

EngInputs ==
  OrdinaryInputs \cup SmallLoanInputs \cup HighTaxInputs \cup HoaInputs

(***************************************************************************)
(* One call of calculateRentVsBuy, a loop iteration at a time.             *)
(***************************************************************************)
EngIdle == [pc |-> "off"]
McIdle == [pc |-> "off"]
SensIdle == [pc |-> "off"]
AppIdle == [pc |-> "off"]

EngInit == \E inputs \in EngInputs : eng = [pc |-> "call", inputs |-> inputs]

\* lines 137-185
EngCall ==
  /\ eng.pc = "call"
  /\ eng' = EngSetup(eng.inputs)
  /\ UNCHANGED <<pay, mc, sens, app>>

\* lines 189-309
LoopIteration ==
  /\ eng.pc = "loop"
  /\ LoopContinues(eng.year, eng.inputs.timeHorizonYears)
  /\ eng' = EngStep(eng)
  /\ UNCHANGED <<pay, mc, sens, app>>

\* lines 311-324
EngReturn ==
  /\ eng.pc = "loop"
  /\ ~LoopContinues(eng.year, eng.inputs.timeHorizonYears)
  /\ Finish(eng).pc = "done"
  /\ eng' = Finish(eng)
  /\ UNCHANGED <<pay, mc, sens, app>>

\* lines 311, 319: the TypeError of an empty projection list
EngThrow ==
  /\ eng.pc = "loop"
  /\ ~LoopContinues(eng.year, eng.inputs.timeHorizonYears)
  /\ Finish(eng).pc = "threw"
  /\ eng' = Finish(eng)
  /\ UNCHANGED <<pay, mc, sens, app>>

(***************************************************************************)
(* runMonteCarloSimulation (calculations.ts 24-89).                        *)
(***************************************************************************)
\* randomNormal with the standard deviation left out of the product
randomNormal_Unscaled(z, mean, stdDev) == z + mean

\* randomNormal: z is the standard normal variate that Box-Muller makes of
\* the two Math.random() draws; any real value can come out of it.
randomNormal(z, mean, stdDev) == z * stdDev + mean

ZDraws == {0 - 1, 1}

\* defaultMonteCarloInputs of the calculator store (percentage points)
defaultMonteCarloInputs ==
  [homePriceVolatility   |-> 15,
   rentVolatility        |-> 10,
   stockMarketVolatility |-> 20,
   simulations           |-> 1000]

McInputs ==
  { [defaultInputs EXCEPT !.homePrice = 360000 * Mills,
       !.timeHorizonYears = th] : th \in Horizons }

\* arr.sort((a, b) => a - b): insertion into the sorted tail
RECURSIVE InsertAsc(_, _)
InsertAsc(x, sorted) ==
  IF sorted = << >> THEN <<x>>
  ELSE IF x <= sorted[1] THEN <<x>> \o sorted
  ELSE <<sorted[1]>> \o InsertAsc(x, Tail(sorted))

\* SortAsc with the sort left out
SortAsc_Unsorted(arr) == arr

RECURSIVE SortAsc(_)
SortAsc(arr) ==
  IF arr = << >> THEN << >> ELSE InsertAsc(arr[1], SortAsc(Tail(arr)))

\* getPercentile with the rank ceil(n * p / 100) - 1 for floor(n * p / 100)
getPercentile_CeilRank(arr, p) ==
  LET index == ((Len(arr) * p + 99) \div 100) - 1
  IN  arr[Min(Max(index, 0), Len(arr) - 1) + 1]

\* lines 64-67 (the array is 0-based in the program, 1-based here)
getPercentile(arr, p) ==
  LET index == (Len(arr) * p) \div 100
  IN  arr[Min(index, Len(arr) - 1) + 1]

\* lines 58-59: s.yearlyProjections[year - 1]?.rentNetWorth || 0
RentNetWorthOf(s, year) ==
  IF year <= Len(s.yearlyProjections)
  THEN s.yearlyProjections[year].rentNetWorth ELSE 0

BuyNetWorthOf(s, year) ==
  IF year <= Len(s.yearlyProjections)
  THEN s.yearlyProjections[year].buyNetWorth ELSE 0

FiveNumbers(arr) ==
  [p10 |-> getPercentile(arr, 10), p25 |-> getPercentile(arr, 25),
   p50 |-> getPercentile(arr, 50), p75 |-> getPercentile(arr, 75),
   p90 |-> getPercentile(arr, 90)]

\* lines 57-86: the MonteCarloResult of one year
MonteCarloResultOf(simulations, year) ==
  LET rentNetWorths ==
        SortAsc([k \in 1 .. Len(simulations) |-> RentNetWorthOf(simulations[k], year)])
      buyNetWorths ==
        SortAsc([k \in 1 .. Len(simulations) |-> BuyNetWorthOf(simulations[k], year)])
  IN  [year |-> year,
       rentNetWorth |-> FiveNumbers(rentNetWorths),
       buyNetWorth  |-> FiveNumbers(buyNetWorths)]

\* RandomInputsOf with "const randomInputs = inputs" for the spread copy:
\* the three assignments write into the caller's object.
RandomInputsOf_Aliased(inputs, homeAppreciationRate, rentGrowthRate, investmentReturn) ==
  LET randomInputs ==
        [inputs EXCEPT !.homeAppreciationRate = homeAppreciationRate,
                       !.rentGrowthRate = rentGrowthRate,
                       !.investmentReturn = investmentReturn]
  IN  [inputs |-> randomInputs, randomInputs |-> randomInputs]

\* lines 41-50: randomInputs = { ...inputs } and the three assignments to
\* the copy; the caller's object and the copy after them
RandomInputsOf(inputs, homeAppreciationRate, rentGrowthRate, investmentReturn) ==
  LET randomInputs ==
        [inputs EXCEPT !.homeAppreciationRate = homeAppreciationRate,
                       !.rentGrowthRate = rentGrowthRate,
                       !.investmentReturn = investmentReturn]
  IN  [inputs |-> inputs, randomInputs |-> randomInputs]

\* the volatilities of the store's defaults, and all three set to 0 (the
\* settings fields store parseFloat(value) || 0)
McVolatilities ==
  { defaultMonteCarloInputs,
    [defaultMonteCarloInputs EXCEPT !.homePriceVolatility = 0,
       !.rentVolatility = 0, !.stockMarketVolatility = 0] }

McInit ==
  \E inputs \in McInputs, volatilities \in McVolatilities, n \in 1 .. MaxSims :
    mc = [pc |-> "run", inputs |-> inputs,
          monteCarloInputs |-> [volatilities EXCEPT !.simulations = n],
          i |-> 0, randomInputs |-> inputs, simulations |-> << >>,
          year |-> 1, results |-> << >>]

\* lines 40-54: one simulation, for a horizon the engine accepts
McSimulate ==
  /\ mc.pc = "run"
  /\ mc.i < mc.monteCarloInputs.simulations
  /\ mc.inputs.timeHorizonYears >= 1
  /\ \E zh \in ZDraws, zr \in ZDraws, zs \in ZDraws :
       LET in == mc.inputs
           mi == mc.monteCarloInputs
           \* volatility / 100 * 100 percentage points, in tenths of a percent
           objects ==
             RandomInputsOf(in,
               in.homeAppreciationRate
                 + randomNormal(zh, 0, mi.homePriceVolatility * 10),
               in.rentGrowthRate + randomNormal(zr, 0, mi.rentVolatility * 10),
               in.investmentReturn
                 + randomNormal(zs, 0, mi.stockMarketVolatility * 10))
       IN  mc' = [mc EXCEPT
                    !.inputs = objects.inputs,
                    !.randomInputs = objects.randomInputs,
                    !.simulations =
                       Append(mc.simulations,
                              calculateRentVsBuy(objects.randomInputs)),
                    !.i = mc.i + 1]
  /\ UNCHANGED <<pay, eng, sens, app>>

\* line 52: calculateRentVsBuy throws for an empty projection list
McThrow ==
  /\ mc.pc = "run"
  /\ mc.i < mc.monteCarloInputs.simulations
  /\ mc.inputs.timeHorizonYears < 1
  /\ mc' = [mc EXCEPT !.pc = "threw"]
  /\ UNCHANGED <<pay, eng, sens, app>>

\* lines 57-86: one iteration of the percentile loop
McReduce ==
  /\ mc.pc = "run"
  /\ mc.i >= mc.monteCarloInputs.simulations
  /\ mc.year <= mc.inputs.timeHorizonYears
  /\ mc' = [mc EXCEPT
              !.results = Append(mc.results,
                                 MonteCarloResultOf(mc.simulations, mc.year)),
              !.year = mc.year + 1]
  /\ UNCHANGED <<pay, eng, sens, app>>

\* line 88
McReturn ==
  /\ mc.pc = "run"
  /\ mc.i >= mc.monteCarloInputs.simulations
  /\ mc.year > mc.inputs.timeHorizonYears
  /\ mc' = [mc EXCEPT !.pc = "done"]
  /\ UNCHANGED <<pay, eng, sens, app>>

(***************************************************************************)
(* runSensitivityAnalysis (calculations.ts 91-134).                        *)
(***************************************************************************)
\* lines 95-100: the swept parameters; range is in percent of the base value
\* for homePrice and in percentage points for the rates
parameters(baseInputs) ==
  << [key |-> "homePrice", name |-> "Home Price",
      baseValue |-> baseInputs.homePrice,
      range |-> <<0 - 20, 0 - 10, 0, 10, 20>>],
     [key |-> "interestRate", name |-> "Interest Rate",
      baseValue |-> baseInputs.interestRate,
      range |-> <<0 - 2, 0 - 1, 0, 1, 2>>],
     [key |-> "homeAppreciationRate", name |-> "Home Appreciation",
      baseValue |-> baseInputs.homeAppreciationRate,
      range |-> <<0 - 2, 0 - 1, 0, 1, 2>>],
     [key |-> "rentGrowthRate", name |-> "Rent Growth",
      baseValue |-> baseInputs.rentGrowthRate,
      range |-> <<0 - 2, 0 - 1, 0, 1, 2>>] >>

\* TestValue with the additive branch taken for every parameter
TestValue_Additive(key, baseValue, delta) == baseValue + delta * 10

\* lines 111-115: baseValue * (1 + delta / 100) for homePrice, baseValue +
\* delta for the rates (a percentage point is 10 tenths of a percent)
TestValue(key, baseValue, delta) ==
  IF key = "homePrice" THEN PerMille(baseValue, 1000 + delta * 10)
  ELSE baseValue + delta * 10

\* TestInputsOf with "const testInputs = baseInputs" for the spread copy
TestInputsOf_Aliased(baseInputs, key, testValue) ==
  [baseInputs |-> [baseInputs EXCEPT ![key] = testValue],
   testInputs |-> [baseInputs EXCEPT ![key] = testValue]]

\* lines 108, 117: testInputs = { ...baseInputs }; testInputs[key] =
\* testValue; the caller's object and the copy after the assignment
TestInputsOf(baseInputs, key, testValue) ==
  [baseInputs |-> baseInputs,
   testInputs |-> [baseInputs EXCEPT ![key] = testValue]]

SensInputs ==
  { [defaultInputs EXCEPT !.homePrice = 360000 * Mills,
       !.homeAppreciationRate = 33, !.timeHorizonYears = th,
       !.currentRent = cr] :
      th \in Horizons, cr \in CurrentRents }

SensInit ==
  \E baseInputs \in SensInputs :
    sens = [pc |-> "run", baseInputs |-> baseInputs, p |-> 1, d |-> 1,
            testInputs |-> baseInputs, values |-> << >>, breakEvenYears |-> << >>,
            finalNetWorthDifferences |-> << >>, analyses |-> << >>]

\* lines 107-123: one delta of one parameter, for a horizon the engine
\* accepts
SensTest ==
  /\ sens.pc = "run"
  /\ sens.p <= Len(parameters(sens.baseInputs))
  /\ sens.d <= Len(parameters(sens.baseInputs)[sens.p].range)
  /\ sens.baseInputs.timeHorizonYears >= 1
  /\ LET param     == parameters(sens.baseInputs)[sens.p]
         delta     == param.range[sens.d]
         testValue == TestValue(param.key, param.baseValue, delta)
         objects   == TestInputsOf(sens.baseInputs, param.key, testValue)
         result    == calculateRentVsBuy(objects.testInputs)
     IN  sens' = [sens EXCEPT
                    !.baseInputs = objects.baseInputs,
                    !.testInputs = objects.testInputs,
                    !.values = Append(sens.values, testValue),
                    !.breakEvenYears =
                       Append(sens.breakEvenYears, result.breakEvenYear),
                    !.finalNetWorthDifferences =
                       Append(sens.finalNetWorthDifferences,
                              result.netWorthDifference),
                    !.d = sens.d + 1]
  /\ UNCHANGED <<pay, eng, mc, app>>

\* line 120: calculateRentVsBuy throws for an empty projection list
SensThrow ==
  /\ sens.pc = "run"
  /\ sens.p <= Len(parameters(sens.baseInputs))
  /\ sens.d <= Len(parameters(sens.baseInputs)[sens.p].range)
  /\ sens.baseInputs.timeHorizonYears < 1
  /\ sens' = [sens EXCEPT !.pc = "threw"]
  /\ UNCHANGED <<pay, eng, mc, app>>

\* lines 125-130: the analysis of one parameter is pushed
SensPush ==
  /\ sens.pc = "run"
  /\ sens.p <= Len(parameters(sens.baseInputs))
  /\ sens.d > Len(parameters(sens.baseInputs)[sens.p].range)
  /\ sens' = [sens EXCEPT
                !.analyses =
                   Append(sens.analyses,
                     [parameter |-> parameters(sens.baseInputs)[sens.p].name,
                      values |-> sens.values,
                      breakEvenYears |-> sens.breakEvenYears,
                      finalNetWorthDifferences |->
                        sens.finalNetWorthDifferences]),
                !.values = << >>,
                !.breakEvenYears = << >>,
                !.finalNetWorthDifferences = << >>,
                !.p = sens.p + 1,
                !.d = 1]
  /\ UNCHANGED <<pay, eng, mc, app>>

\* line 133
SensReturn ==
  /\ sens.pc = "run"
  /\ sens.p > Len(parameters(sens.baseInputs))
  /\ sens' = [sens EXCEPT !.pc = "done"]
  /\ UNCHANGED <<pay, eng, mc, app>>

(***************************************************************************)
(* The calculator store (stores/calculator-store.ts) and the Calculator    *)
(* component that recomputes the results (Calculator.tsx 44-90).           *)
(*                                                                         *)
(* app.changed holds the useMemo / useEffect dependencies that changed     *)
(* since the component last rendered; React renders before it handles the  *)
(* next event, so the handlers below run only when nothing is pending.     *)
(***************************************************************************)
\* results: CalculationResults | null
NoResults == [none |-> TRUE]

\* the values typed into the "Time Horizon (Years)" field
AppHorizons == {0 - 1, 0, 2}

\* the inputs objects the store can hold whose horizon the engine accepts
AppInputs ==
  { [defaultInputs EXCEPT !.timeHorizonYears = th] :
      th \in {h \in AppHorizons \cup {defaultInputs.timeHorizonYears} : h >= 1} }

\* Calculator.tsx 46: calculateRentVsBuy(inputs), tabulated over AppInputs
ProjectionOf == [inputs \in AppInputs |-> calculateRentVsBuy(inputs)]

\* Calculator.tsx 83-88: { ...calculationResults, monteCarloResults }; the
\* Monte Carlo percentiles are random and only their presence is kept
EnhancedResults(calculationResults, hasMonteCarlo) ==
  [yearlyProjections  |-> calculationResults.yearlyProjections,
   breakEvenYear      |-> calculationResults.breakEvenYear,
   totalCostRent      |-> calculationResults.totalCostRent,
   totalCostBuy       |-> calculationResults.totalCostBuy,
   netWorthDifference |-> calculationResults.netWorthDifference,
   totalTaxSavings    |-> calculationResults.totalTaxSavings,
   totalInterestPaid  |-> calculationResults.totalInterestPaid,
   monteCarloResults  |-> hasMonteCarlo]

\* InputForm.tsx 11-12: parseFloat(value) of a number input is a number or
\* NaN, and every number is passed on
Accepted(field, numValue) == TRUE

AppInit ==
  app = [inputs             |-> defaultInputs,
         isDefaultObject    |-> TRUE,
         results            |-> NoResults,
         scenarios          |-> << >>,
         activeScenarioId   |-> Null,
         showMonteCarlo     |-> FALSE,
         activeTab          |-> "basic",
         calculationResults |-> NoResults,
         changed            |-> {"inputs", "showMonteCarlo", "activeTab"},
         calls              |-> << >>,
         clock              |-> 1]

\* Calculator.tsx 44-90: one render with its effect.  Each useMemo runs
\* again only if one of its dependencies changed.
CalculatorRender ==
  /\ app.changed # {}
  /\ \E calculationResults \in
          \* lines 44-52
          { IF "inputs" \notin app.changed THEN app.calculationResults
            ELSE IF app.inputs.timeHorizonYears >= 1
                 THEN ProjectionOf[app.inputs]
                 ELSE NoResults } :
     LET inputsChanged == "inputs" \in app.changed
         calculationCalls ==
           IF inputsChanged
           THEN << [fn |-> "calculateRentVsBuy", inputs |-> app.inputs] >>
           ELSE << >>
         \* lines 55-68
         monteCarloRuns ==
           /\ app.showMonteCarlo
           /\ calculationResults # NoResults
         monteCarloCalls ==
           IF monteCarloRuns /\ (inputsChanged \/ "showMonteCarlo" \in app.changed)
           THEN << [fn |-> "runMonteCarloSimulation", inputs |-> app.inputs] >>
           ELSE << >>
         \* lines 71-80
         sensitivityCalls ==
           IF /\ app.activeTab = "advanced"
              /\ inputsChanged \/ "activeTab" \in app.changed
           THEN << [fn |-> "runSensitivityAnalysis", inputs |-> app.inputs] >>
           ELSE << >>
         \* lines 82-90
         effectRuns ==
           /\ calculationResults # NoResults
           /\ inputsChanged \/ "showMonteCarlo" \in app.changed
     IN  app' = [app EXCEPT
                   !.calculationResults = calculationResults,
                   !.results =
                      IF effectRuns
                      THEN EnhancedResults(calculationResults, monteCarloRuns)
                      ELSE app.results,
                   !.calls = calculationCalls \o monteCarloCalls
                               \o sensitivityCalls,
                   !.changed = {}]
  /\ UNCHANGED <<pay, eng, mc, sens>>

\* InputForm.handleInputChange (10-15) and the store's updateInput (93-98)
\* for the horizon field
UpdateInput ==
  /\ app.changed = {}
  /\ \E numValue \in AppHorizons :
       /\ Accepted("timeHorizonYears", numValue)
       /\ app' = [app EXCEPT
                    !.inputs = [app.inputs EXCEPT !.timeHorizonYears = numValue],
                    !.isDefaultObject = FALSE,
                    !.changed = {"inputs"}]
  /\ UNCHANGED <<pay, eng, mc, sens>>

\* resetInputs (108-110): inputs is the defaultInputs object again, which
\* is a change of the dependency only if it was another object before
ResetInputs ==
  /\ app.changed = {}
  /\ app' = [app EXCEPT
               !.inputs = defaultInputs,
               !.results = NoResults,
               !.isDefaultObject = TRUE,
               !.changed = IF app.isDefaultObject THEN {} ELSE {"inputs"}]
  /\ UNCHANGED <<pay, eng, mc, sens>>

\* the names typed into the scenario-name field
ScenarioNames == {"Plan A", "Plan B"}

\* the ids a store action can be called with: those Date.now() gives to
\* the saves, listed or not
ScenarioIds == 1 .. MaxSaves

\* scenarios.find(s => s.id === id) finds a scenario
Listed(scenarios, id) == \E k \in 1 .. Len(scenarios) : scenarios[k].id = id

\* the scenario that scenarios.find(s => s.id === id) returns
FindScenario(scenarios, id) ==
  scenarios[CHOOSE k \in 1 .. Len(scenarios) :
              /\ scenarios[k].id = id
              /\ \A m \in 1 .. k - 1 : scenarios[m].id # id]

\* Calculator.handleSaveScenario (105-110) and saveScenario (112-128); the
\* id is Date.now(), a later time at every save; without results the
\* action returns at line 114
SaveScenario ==
  /\ app.changed = {}
  /\ app.clock <= MaxSaves
  /\ \E name \in ScenarioNames :
       app' = IF app.results = NoResults THEN app
              ELSE [app EXCEPT
                      !.scenarios = Append(app.scenarios,
                                      [id |-> app.clock, name |-> name,
                                       inputs |-> app.inputs,
                                       results |-> app.results]),
                      !.activeScenarioId = app.clock,
                      !.clock = app.clock + 1]
  /\ UNCHANGED <<pay, eng, mc, sens>>

\* loadScenario (130-140); an id that is not listed changes nothing
LoadScenario ==
  /\ app.changed = {}
  /\ app.results # NoResults
  /\ \E id \in ScenarioIds :
       app' = IF ~Listed(app.scenarios, id) THEN app
              ELSE [app EXCEPT
                      !.inputs = FindScenario(app.scenarios, id).inputs,
                      !.results = FindScenario(app.scenarios, id).results,
                      !.activeScenarioId = id,
                      !.isDefaultObject = FALSE,
                      !.changed = {"inputs"}]
  /\ UNCHANGED <<pay, eng, mc, sens>>

\* ActiveAfterDelete that keeps the id of the deleted scenario
ActiveAfterDelete_Kept(activeScenarioId, id) == activeScenarioId

\* line 145: state.activeScenarioId === id ? null : state.activeScenarioId
ActiveAfterDelete(activeScenarioId, id) ==
  IF activeScenarioId = id THEN Null ELSE activeScenarioId

\* deleteScenario (142-147)
DeleteScenario ==
  /\ app.changed = {}
  /\ app.results # NoResults
  /\ \E id \in ScenarioIds :
       app' = [app EXCEPT
                 !.scenarios = SelectSeq(app.scenarios, LAMBDA s : s.id # id),
                 !.activeScenarioId =
                    ActiveAfterDelete(app.activeScenarioId, id)]
  /\ UNCHANGED <<pay, eng, mc, sens>>

\* updateScenarioName (149-155)
UpdateScenarioName ==
  /\ app.changed = {}
  /\ \E id \in ScenarioIds, name \in ScenarioNames :
       app' = [app EXCEPT
                 !.scenarios =
                    [k \in 1 .. Len(app.scenarios) |->
                       IF app.scenarios[k].id = id
                       THEN [app.scenarios[k] EXCEPT !.name = name]
                       ELSE app.scenarios[k]]]
  /\ UNCHANGED <<pay, eng, mc, sens>>

\* toggleMonteCarlo (161-163), from the button of the results page
ToggleMonteCarlo ==
  /\ app.changed = {}
  /\ app.results # NoResults
  /\ app' = [app EXCEPT !.showMonteCarlo = ~app.showMonteCarlo,
                        !.changed = {"showMonteCarlo"}]
  /\ UNCHANGED <<pay, eng, mc, sens>>

\* setActiveTab (Calculator.tsx 38, 452), from the tabs of the results page
SetActiveTab ==
  /\ app.changed = {}
  /\ app.results # NoResults
  /\ \E tab \in {"basic", "advanced"} :
       /\ tab # app.activeTab
       /\ app' = [app EXCEPT !.activeTab = tab, !.changed = {"activeTab"}]
  /\ UNCHANGED <<pay, eng, mc, sens>>

Init == EngInit /\ pay = PayIdle /\ mc = McIdle /\ sens = SensIdle /\ app = AppIdle
Next == EngCall \/ LoopIteration \/ EngReturn \/ EngThrow
Spec == Init /\ [][Next]_vars

InitPay ==
  PayInit /\ eng = EngIdle /\ mc = McIdle /\ sens = SensIdle /\ app = AppIdle
NextPay == PayReturn
SpecPay == InitPay /\ [][NextPay]_vars

InitMC ==
  McInit /\ eng = EngIdle /\ pay = PayIdle /\ sens = SensIdle /\ app = AppIdle
NextMC == McSimulate \/ McThrow \/ McReduce \/ McReturn
SpecMC == InitMC /\ [][NextMC]_vars

InitSens ==
  SensInit /\ eng = EngIdle /\ pay = PayIdle /\ mc = McIdle /\ app = AppIdle
NextSens == SensTest \/ SensThrow \/ SensPush \/ SensReturn
SpecSens == InitSens /\ [][NextSens]_vars

InitApp ==
  AppInit /\ eng = EngIdle /\ pay = PayIdle /\ mc = McIdle /\ sens = SensIdle
NextApp ==
  \/ CalculatorRender
  \/ UpdateInput
  \/ ResetInputs
  \/ SaveScenario
  \/ LoadScenario
  \/ DeleteScenario
  \/ UpdateScenarioName
  \/ ToggleMonteCarlo
  \/ SetActiveTab
SpecApp == InitApp /\ [][NextApp]_vars

\* one call of any of the three exported projections
InitCalls == Init \/ InitMC \/ InitSens
NextCalls == Next \/ NextMC \/ NextSens
SpecCalls == InitCalls /\ [][NextCalls]_vars

(***************************************************************************)
(* Properties.                                                             *)
(***************************************************************************)
\* the projection rows recorded so far by the call of calculateRentVsBuy
Rows == IF eng.pc \in {"loop", "done", "threw"} THEN eng.yearlyProjections ELSE << >>

\* mortgage balance and home value at the start of year y (before that
\* year's amortization and appreciation)
BalanceBefore(y) == IF y = 1 THEN eng.loanAmount ELSE Rows[y - 1].mortgageBalance
HomeValueBefore(y) == IF y = 1 THEN eng.inputs.homePrice ELSE Rows[y - 1].homeValue

\* C1: when timeHorizonYears >= loanTermYears, the row of year loanTermYears
\* and every later row has mortgageBalance = 0.
C1_PaidOffByTerm ==
  \A y \in 1 .. Len(Rows) :
    (/\ eng.inputs.timeHorizonYears >= eng.inputs.loanTermYears
     /\ Rows[y].year >= eng.inputs.loanTermYears)
      => Rows[y].mortgageBalance = 0

\* C2: mortgageBalance never increases from row to row (row 1 is at most
\* loanAmount) and is never negative.
C2_BalanceNonIncreasing ==
  \A y \in 1 .. Len(Rows) :
    /\ Rows[y].mortgageBalance <= BalanceBefore(y)
    /\ Rows[y].mortgageBalance >= 0

\* the net-worth leader of a row: 'rent' if rentNetWorth > buyNetWorth,
\* 'buy' otherwise
Leader(row) == IF row.rentNetWorth > row.buyNetWorth THEN "rent" ELSE "buy"

FlipYears(rows) == {y \in 2 .. Len(rows) : Leader(rows[y]) # Leader(rows[y - 1])}

FirstFlip(rows) ==
  IF FlipYears(rows) = {} THEN Null
  ELSE CHOOSE y \in FlipYears(rows) : \A z \in FlipYears(rows) : y <= z

\* C3: breakEvenYear is the smallest year y >= 2 whose leader differs from
\* the leader of year y - 1, and null exactly when there is no such year;
\* it is never 1 and a later flip does not change it.
C3_BreakEvenIsFirstFlip ==
  /\ eng.pc = "loop" => eng.breakEvenYear = FirstFlip(Rows)
  /\ eng.pc = "done" =>
       /\ eng.result.breakEvenYear = FirstFlip(eng.result.yearlyProjections)
       /\ eng.result.breakEvenYear # 1

\* C3 witness: a returned result whose leader flipped twice, the break-even
\* year being the first of the two flips.
C3_Witness ==
  /\ eng.pc = "done"
  /\ Cardinality(FlipYears(eng.result.yearlyProjections)) >= 2
  /\ eng.result.breakEvenYear = 2

\* C4: pmiPayment is non-zero only if the loan-to-value ratio at the start
\* of the year is strictly above 0.8; the test is made anew every year.
C4_PmiOnlyAboveEightyPercent ==
  \A y \in 1 .. Len(Rows) :
    Rows[y].pmiPayment # 0 => BalanceBefore(y) * 5 > HomeValueBefore(y) * 4

\* C4 witness: PMI was charged in one year and had stopped in the next, the
\* ratio having fallen to 0.8 or below.
C4_Witness ==
  \E y \in 2 .. Len(Rows) :
    /\ Rows[y - 1].pmiPayment > 0
    /\ Rows[y].pmiPayment = 0
    /\ BalanceBefore(y) > 0
    /\ BalanceBefore(y) * 5 <= HomeValueBefore(y) * 4

\* C5: with downPaymentPercent >= 20, pmiPayment is 0 in every row and no
\* PMI enters totalOwnershipCost.
C5_NoPmiFromTwentyPercentDown ==
  eng.pc \in {"loop", "done"} /\ eng.inputs.downPaymentPercent >= 200 =>
    \A y \in 1 .. Len(Rows) :
      /\ Rows[y].pmiPayment = 0
      /\ Rows[y].totalOwnershipCost =
           Rows[y].mortgagePayment + Rows[y].propertyTax + Rows[y].insurance
             + Rows[y].maintenance + Rows[y].hoa

\* C6: calculateMortgagePayment returns the amortizing-loan payment
\* (principal / n when the rate is 0) rounded to 2 decimal places.
C6_PaymentRoundedToCents ==
  pay.pc = "done" =>
    pay.result =
      IF pay.annualRate = 0
      THEN Round2(pay.principal \div (pay.termYears * 12))
      ELSE RoundedPayment(pay.principal, pay.annualRate, pay.termYears)

\* C7: every row has rentNetWorth = investmentValue - totalRentPaid; a row
\* before the horizon has buyNetWorth = homeEquity and the row at the
\* horizon has buyNetWorth = netProceedsIfSold
\*   = homeValue - mortgageBalance - homeValue * sellingCostsPercent / 100.
C7_NetWorths ==
  \A y \in 1 .. Len(Rows) :
    /\ Rows[y].rentNetWorth = Rows[y].investmentValue - Rows[y].totalRentPaid
    /\ Rows[y].year < eng.inputs.timeHorizonYears =>
         Rows[y].buyNetWorth = Rows[y].homeEquity
    /\ Rows[y].year = eng.inputs.timeHorizonYears =>
         /\ Rows[y].buyNetWorth = Rows[y].netProceedsIfSold
         /\ Rows[y].netProceedsIfSold =
              Rows[y].homeValue - Rows[y].mortgageBalance
                - PerMille(Rows[y].homeValue, eng.inputs.sellingCostsPercent)

\* C7 witness: a returned result of at least two years whose last row
\* carries a selling cost, so that net proceeds and home equity differ.
C7_Witness ==
  /\ eng.pc = "done"
  /\ Len(Rows) >= 2
  /\ Rows[Len(Rows)].sellingCosts > 0
  /\ Rows[Len(Rows)].buyNetWorth # Rows[Len(Rows)].homeEquity
  /\ Rows[1].buyNetWorth = Rows[1].homeEquity

\* the Monte Carlo results produced so far
McResults == IF mc.pc \in {"run", "done"} THEN mc.results ELSE << >>

Ordered(f) == f.p10 <= f.p25 /\ f.p25 <= f.p50 /\ f.p50 <= f.p75 /\ f.p75 <= f.p90

\* C9: for every year of a Monte Carlo result and both net-worth summaries,
\* p10 <= p25 <= p50 <= p75 <= p90.
C9_PercentilesOrdered ==
  \A k \in 1 .. Len(McResults) :
    Ordered(McResults[k].rentNetWorth) /\ Ordered(McResults[k].buyNetWorth)

\* C9 witness: a returned result of several runs whose draws came out in
\* descending order of net worth, with distinct low and high percentiles.
C9_Witness ==
  /\ mc.pc = "done"
  /\ Len(mc.simulations) >= 2
  /\ Len(mc.results) >= 1
  /\ RentNetWorthOf(mc.simulations[1], 1) > RentNetWorthOf(mc.simulations[2], 1)
  /\ BuyNetWorthOf(mc.simulations[1], 1) > BuyNetWorthOf(mc.simulations[2], 1)
  /\ mc.results[1].rentNetWorth.p10 < mc.results[1].rentNetWorth.p90
  /\ mc.results[1].buyNetWorth.p10 < mc.results[1].buyNetWorth.p90

\* C10: in every row, homeEquity is (homeValue - mortgageBalance) of the
\* same row, rounded to 2 decimal places.
C10_HomeEquity ==
  \A y \in 1 .. Len(Rows) :
    /\ Rows[y].homeEquity = Round2(Rows[y].homeValue - Rows[y].mortgageBalance)
    /\ Rows[y].homeEquity % 10 = 0

\* C10 witness: a row whose home value has a fraction of a cent, so that
\* the rounding changes the difference.
C10_Witness ==
  \E y \in 1 .. Len(Rows) :
    /\ Rows[y].homeValue % 10 # 0
    /\ Rows[y].mortgageBalance > 0
    /\ Rows[y].homeEquity # Rows[y].homeValue - Rows[y].mortgageBalance

\* the value a cumulative column had before row y (0 before the first row)
RentPaidBefore(y) == IF y = 1 THEN 0 ELSE Rows[y - 1].totalRentPaid
OwnershipCostBefore(y) == IF y = 1 THEN 0 ELSE Rows[y - 1].cumulativeOwnershipCost

\* C11: cumulativeOwnershipCost and totalRentPaid never decrease from one
\* row to the next, and each is the running sum of the rows'
\* totalOwnershipCost and rentPayment.
C11_CumulativeRunningSums ==
  \A y \in 1 .. Len(Rows) :
    /\ Rows[y].totalRentPaid = RentPaidBefore(y) + Rows[y].rentPayment
    /\ Rows[y].cumulativeOwnershipCost =
         OwnershipCostBefore(y) + Rows[y].totalOwnershipCost
    /\ Rows[y].totalRentPaid >= RentPaidBefore(y)
    /\ Rows[y].cumulativeOwnershipCost >= OwnershipCostBefore(y)

\* C11 witness: a returned result of three rows in which both cumulative
\* columns grew in every year by that year's positive amount.
C11_Witness ==
  /\ eng.pc = "done"
  /\ Len(Rows) >= 3
  /\ \A y \in 2 .. Len(Rows) :
       /\ Rows[y].rentPayment > 0
       /\ Rows[y].totalOwnershipCost > 0
       /\ Rows[y].totalRentPaid > Rows[y - 1].totalRentPaid
       /\ Rows[y].cumulativeOwnershipCost > Rows[y - 1].cumulativeOwnershipCost

\* C12: for timeHorizonYears = H >= 1 the returned list has exactly H rows
\* in order, the row at index i (from 0) carrying year i + 1; while the loop
\* runs, the rows recorded so far are those of years 1 .. year - 1.
C12_OneRowPerYear ==
  /\ eng.pc = "loop" =>
       /\ Len(Rows) = eng.year - 1
       /\ \A i \in 1 .. Len(Rows) : Rows[i].year = i
  /\ eng.pc = "done" /\ eng.inputs.timeHorizonYears >= 1 =>
       /\ Len(eng.result.yearlyProjections) = eng.inputs.timeHorizonYears
       /\ \A i \in 1 .. Len(eng.result.yearlyProjections) :
            eng.result.yearlyProjections[i].year = i

\* C12 witness: a returned result for a horizon of three years with the
\* rows of years 1, 2 and 3.
C12_Witness ==
  /\ eng.pc = "done"
  /\ eng.inputs.timeHorizonYears = 3
  /\ Len(eng.result.yearlyProjections) = 3
  /\ eng.result.yearlyProjections[1].year = 1
  /\ eng.result.yearlyProjections[3].year = 3

\* the sums of the taxSavings and mortgageInterestPaid columns of rows 1 .. n
TaxSavingsUpTo(rows, n) ==
  LET sum[k \in 0 .. n] == IF k = 0 THEN 0 ELSE sum[k - 1] + rows[k].taxSavings
  IN  sum[n]

InterestUpTo(rows, n) ==
  LET sum[k \in 0 .. n] ==
        IF k = 0 THEN 0 ELSE sum[k - 1] + rows[k].mortgageInterestPaid
  IN  sum[n]

\* C13: in a returned result, totalCostRent = last row's totalRentPaid + rent
\* upfront cost, totalCostBuy = last row's cumulativeOwnershipCost + buy
\* upfront cost, netWorthDifference = last row's buyNetWorth - rentNetWorth,
\* totalTaxSavings = sum of the rows' taxSavings and totalInterestPaid = sum
\* of the rows' mortgageInterestPaid.
C13_Aggregates ==
  eng.pc = "done" =>
    LET r    == eng.result
        rows == r.yearlyProjections
        last == rows[Len(rows)]
    IN  /\ r.totalCostRent = last.totalRentPaid + rows[1].rentUpfrontCosts
        /\ r.totalCostBuy = last.cumulativeOwnershipCost + rows[1].buyUpfrontCosts
        /\ r.netWorthDifference = last.buyNetWorth - last.rentNetWorth
        /\ r.totalTaxSavings = TaxSavingsUpTo(rows, Len(rows))
        /\ r.totalInterestPaid = InterestUpTo(rows, Len(rows))

\* C13 witness: a returned result of several rows with tax savings and
\* interest in more than one of them, so that the sums differ from the last
\* row's amounts.
C13_Witness ==
  /\ eng.pc = "done"
  /\ Len(eng.result.yearlyProjections) >= 2
  /\ eng.result.yearlyProjections[1].taxSavings > 0
  /\ eng.result.yearlyProjections[2].taxSavings > 0
  /\ eng.result.yearlyProjections[1].mortgageInterestPaid > 0
  /\ eng.result.totalTaxSavings > eng.result.yearlyProjections[2].taxSavings
  /\ eng.result.totalCostRent > 0
  /\ eng.result.totalCostBuy > 0

\* C14: a call with timeHorizonYears <= 0 records no row and never reaches
\* a returned result: it throws after the loop; every returned result has
\* the full timeHorizonYears >= 1 rows, never fewer.
C14_NonPositiveHorizonThrows ==
  /\ eng.pc \in {"loop", "done", "threw"} /\ eng.inputs.timeHorizonYears <= 0 =>
       /\ eng.pc # "done"
       /\ eng.yearlyProjections = << >>
  /\ eng.pc = "threw" => eng.inputs.timeHorizonYears <= 0
  /\ eng.pc = "done" =>
       /\ eng.inputs.timeHorizonYears >= 1
       /\ Len(eng.result.yearlyProjections) = eng.inputs.timeHorizonYears

\* C14 witness: a call with a negative horizon that threw, with no row and
\* no result.
C14_Witness ==
  /\ eng.pc = "threw"
  /\ eng.inputs.timeHorizonYears < 0
  /\ eng.yearlyProjections = << >>
  /\ eng.result = [none |-> TRUE]

\* C18: a non-null breakEvenYear is the year from which buying leads:
\* renting leads in year breakEvenYear - 1 and buying leads in year
\* breakEvenYear, never the other way round.
C18_BreakEvenIsRentToBuy ==
  eng.pc = "done" /\ eng.result.breakEvenYear # Null =>
    LET rows == eng.result.yearlyProjections
        b    == eng.result.breakEvenYear
    IN  /\ rows[b - 1].rentNetWorth > rows[b - 1].buyNetWorth
        /\ ~(rows[b].rentNetWorth > rows[b].buyNetWorth)

\* the renter's investment before the contribution of year y
InvestmentBefore(y) ==
  IF y = 1 THEN eng.downPayment ELSE Rows[y - 1].investmentValue

\* C19: in every year, investmentValue[y] = investmentValue[y-1]
\* * (1 + investmentReturn/100) + (totalOwnershipCost[y] - rentPayment[y])
\* with investmentValue[0] = downPayment, the two amounts being the ones
\* recorded in row y (PMI gated by loan-to-value > 0.8 included).
C19_InvestmentFromRowCost ==
  \A y \in 1 .. Len(Rows) :
    Rows[y].investmentValue =
      PerMille(InvestmentBefore(y), 1000 + eng.inputs.investmentReturn)
        + (Rows[y].totalOwnershipCost - Rows[y].rentPayment)

\* C20: in every row, taxSavings = max(0, (mortgageInterestPaid
\* + min(propertyTax, 10000) + otherDeductions - 29200) * marginalTaxRate
\* / 100); it is never negative and is 0 whenever the itemized deductions
\* do not exceed 29200.
C20_TaxSavings ==
  \A y \in 1 .. Len(Rows) :
    LET itemized == Rows[y].mortgageInterestPaid
                      + Min(Rows[y].propertyTax, 10000 * Mills)
                      + eng.inputs.otherDeductions
    IN  /\ Rows[y].taxSavings =
             Max(0, PerMille(itemized - 29200 * Mills,
                             eng.inputs.marginalTaxRate))
        /\ Rows[y].taxSavings >= 0
        /\ itemized <= 29200 * Mills => Rows[y].taxSavings = 0

\* C20 witness: a returned result with a row whose property tax is above
\* the 10000 cap and whose positive tax savings count 10000 of it.
C20_Witness ==
  \E y \in 1 .. Len(Rows) :
    /\ eng.pc = "done"
    /\ Rows[y].propertyTax > 10000 * Mills
    /\ Rows[y].taxSavings > 0
    /\ Rows[y].taxSavings =
         PerMille(Rows[y].mortgageInterestPaid + 10000 * Mills
                    + eng.inputs.otherDeductions - 29200 * Mills,
                  eng.inputs.marginalTaxRate)

\* the analyses pushed so far by runSensitivityAnalysis
Analyses == IF sens.pc \in {"run", "done"} THEN sens.analyses ELSE << >>

\* C16: runSensitivityAnalysis returns exactly four analyses in the order
\* Home Price, Interest Rate, Home Appreciation, Rent Growth, each with
\* three parallel arrays of length 5; Home Price values are base * 0.8,
\* 0.9, 1, 1.1, 1.2 and the other values are base - 2, - 1, + 0, + 1, + 2
\* percentage points, so the base value is at index 2 (of 0 .. 4).
C16_SensitivityLayout ==
  LET names == <<"Home Price", "Interest Rate", "Home Appreciation", "Rent Growth">>
      base  == <<sens.baseInputs.homePrice, sens.baseInputs.interestRate,
                 sens.baseInputs.homeAppreciationRate,
                 sens.baseInputs.rentGrowthRate>>
  IN  /\ sens.pc = "done" => Len(sens.analyses) = 4
      /\ \A k \in 1 .. Len(Analyses) :
           LET a == Analyses[k]
           IN  /\ a.parameter = names[k]
               /\ Len(a.values) = 5
               /\ Len(a.breakEvenYears) = 5
               /\ Len(a.finalNetWorthDifferences) = 5
               /\ a.values[3] = base[k]
               /\ k = 1 =>
                    a.values = << (base[1] \div 10) * 8, (base[1] \div 10) * 9,
                                  base[1], (base[1] \div 10) * 11,
                                  (base[1] \div 10) * 12 >>
               /\ k > 1 =>
                    a.values = << base[k] - 20, base[k] - 10, base[k],
                                  base[k] + 10, base[k] + 20 >>

\* C16 witness: a returned sensitivity analysis whose Home Price values are
\* 288000, 324000, 360000, 396000, 432000 and whose Interest Rate values
\* are 5, 6, 7, 8, 9 percent.
C16_Witness ==
  /\ sens.pc = "done"
  /\ Len(sens.analyses) = 4
  /\ sens.analyses[1].values =
       <<288000 * Mills, 324000 * Mills, 360000 * Mills, 396000 * Mills,
         432000 * Mills>>
  /\ sens.analyses[2].values = <<50, 60, 70, 80, 90>>
  /\ sens.analyses[4].parameter = "Rent Growth"

\* C17: no step of calculateRentVsBuy, runMonteCarloSimulation or
\* runSensitivityAnalysis changes a field of the FinancialInputs (or
\* MonteCarloInputs) object the caller passed, and no step writes state
\* outside the running call's own locals.
C17_ArgumentsUntouched ==
  [][ /\ eng.pc # "off" =>
           /\ eng'.inputs = eng.inputs
           /\ UNCHANGED <<pay, mc, sens, app>>
      /\ mc.pc # "off" =>
           /\ mc'.inputs = mc.inputs
           /\ mc'.monteCarloInputs = mc.monteCarloInputs
           /\ UNCHANGED <<pay, eng, sens, app>>
      /\ sens.pc # "off" =>
           /\ sens'.baseInputs = sens.baseInputs
           /\ UNCHANGED <<pay, eng, mc, app>> ]_vars

\* C17 witness: a returned Monte Carlo result whose first run was computed
\* from perturbed inputs (it differs from the projection of the caller's
\* inputs) while the caller's object still holds the unperturbed rates.
C17_Witness ==
  /\ mc.pc = "done"
  /\ Len(mc.simulations) >= 1
  /\ mc.simulations[1] # calculateRentVsBuy(mc.inputs)
  /\ mc.inputs \in McInputs
  /\ mc.monteCarloInputs.simulations = Len(mc.simulations)

\* the engine calls made by the Calculator's latest render
Calls == IF "calls" \in DOMAIN app THEN app.calls ELSE << >>

\* C15: every call the application makes to calculateRentVsBuy,
\* runMonteCarloSimulation or runSensitivityAnalysis passes
\* timeHorizonYears >= 1 and loanTermYears > 0, whatever was typed into the
\* form and whichever store actions ran before.
C15_CallsHaveValidInputs ==
  \A c \in 1 .. Len(Calls) :
    /\ Calls[c].inputs.timeHorizonYears >= 1
    /\ Calls[c].inputs.loanTermYears > 0

\* C21: every projection row records the deductible property tax of its
\* year: propertyTaxPaid = min(propertyTax, 10000), so it never exceeds the
\* 10000 SALT cap.
C21_PropertyTaxPaidCapped ==
  \A y \in 1 .. Len(Rows) :
    /\ Rows[y].propertyTaxPaid = Min(Rows[y].propertyTax, SaltCap * Mills)
    /\ Rows[y].propertyTaxPaid <= SaltCap * Mills

\* C22: upfront costs are attributed entirely to year 1: row 1 has
\* buyUpfrontCosts = downPayment + homePrice * closingCostsPercent / 100
\* + 1% of homePrice and rentUpfrontCosts = 2 * currentRent; every later
\* row has both fields 0, so the sum of each field over all rows is the
\* upfront cost, counted once.
C22_UpfrontCostsInYearOne ==
  LET in == eng.inputs
      buy == PerMille(in.homePrice, in.downPaymentPercent)
               + PerMille(in.homePrice, in.closingCostsPercent)
               + PerMille(in.homePrice, 10)
      rent == 2 * in.currentRent
      SumField[k \in 0 .. Len(Rows)] ==
        IF k = 0 THEN [b |-> 0, r |-> 0]
        ELSE [b |-> SumField[k - 1].b + Rows[k].buyUpfrontCosts,
              r |-> SumField[k - 1].r + Rows[k].rentUpfrontCosts]
  IN  Len(Rows) >= 1 =>
        /\ Rows[1].buyUpfrontCosts = buy
        /\ Rows[1].rentUpfrontCosts = rent
        /\ \A y \in 2 .. Len(Rows) :
             /\ Rows[y].buyUpfrontCosts = 0
             /\ Rows[y].rentUpfrontCosts = 0
        /\ SumField[Len(Rows)] = [b |-> buy, r |-> rent]

\* C22 witness: a returned result of three rows whose first row carries
\* positive upfront costs on both paths.
C22_Witness ==
  /\ eng.pc = "done"
  /\ Len(Rows) = 3
  /\ Rows[1].buyUpfrontCosts > 0
  /\ Rows[1].rentUpfrontCosts > 0
  /\ Rows[3].year = 3

\* the components of a row's totalOwnershipCost other than the HOA fees
NonHoaCost(row) ==
  row.mortgagePayment + row.pmiPayment + row.propertyTax + row.insurance
    + row.maintenance

\* C23: the HOA input is a monthly fee and every year's ownership cost
\* counts twelve months of it: in every row hoa = 12 * hoaFees and the HOA
\* part of totalOwnershipCost is 12 * hoaFees.
C23_HoaCountedForTwelveMonths ==
  \A y \in 1 .. Len(Rows) :
    /\ Rows[y].hoa = 12 * eng.inputs.hoaFees
    /\ Rows[y].totalOwnershipCost - NonHoaCost(Rows[y])
         = 12 * eng.inputs.hoaFees

\* the year's sample of one path over the n runs, in run order
McSample(path, year) ==
  [k \in 1 .. Len(mc.simulations) |->
     mc.simulations[k].yearlyProjections[year][path]]

\* v stands at 0-based position index of the ascending order of sample
AtSortedIndex(sample, index, v) ==
  /\ \E k \in 1 .. Len(sample) : sample[k] = v
  /\ Cardinality({k \in 1 .. Len(sample) : sample[k] < v}) <= index
  /\ Cardinality({k \in 1 .. Len(sample) : sample[k] <= v}) >= index + 1

\* C24: for simulations = n >= 1 runMonteCarloSimulation returns exactly
\* timeHorizonYears results, with year = 1..timeHorizonYears in order, and
\* each percentile p of 10, 25, 50, 75, 90 is the element at index
\* min(floor(n * p / 100), n - 1) of the year's ascending sample of the n
\* runs' net worths: a sample value, never interpolated; for n = 1 all five
\* are the single run's value.
C24_NearestRankPercentiles ==
  mc.pc = "done" =>
    LET n == mc.monteCarloInputs.simulations
        Rank(p) == Min((n * p) \div 100, n - 1)
    IN  /\ Len(mc.results) = mc.inputs.timeHorizonYears
        /\ Len(mc.simulations) = n
        /\ \A y \in 1 .. Len(mc.results) :
             /\ mc.results[y].year = y
             /\ \A path \in {"rentNetWorth", "buyNetWorth"} :
                  LET five == mc.results[y][path]
                      sample == McSample(path, y)
                  IN  /\ AtSortedIndex(sample, Rank(10), five.p10)
                      /\ AtSortedIndex(sample, Rank(25), five.p25)
                      /\ AtSortedIndex(sample, Rank(50), five.p50)
                      /\ AtSortedIndex(sample, Rank(75), five.p75)
                      /\ AtSortedIndex(sample, Rank(90), five.p90)
                      /\ n = 1 =>
                           five = [p10 |-> sample[1], p25 |-> sample[1],
                                   p50 |-> sample[1], p75 |-> sample[1],
                                   p90 |-> sample[1]]

\* C24 witness: a returned summary of two runs over two or more years whose
\* buy net worths differ in a year, with p10 the smaller and p50 the larger.
C24_Witness ==
  /\ mc.pc = "done"
  /\ mc.monteCarloInputs.simulations = 2
  /\ Len(McResults) >= 2
  /\ McResults[2].year = 2
  /\ McResults[2].buyNetWorth.p10 < McResults[2].buyNetWorth.p50
  /\ McResults[2].buyNetWorth.p50 = McResults[2].buyNetWorth.p90

\* C25: every projection row records the same mortgagePayment, 12 *
\* calculateMortgagePayment(loanAmount, interestRate, loanTermYears); the
\* payment is part of the row's totalOwnershipCost and of the renter's
\* comparison cost that feeds investmentValue, also in years that start
\* with a mortgageBalance of 0 and in years beyond loanTermYears.
C25_MortgagePaymentEveryYear ==
  \A y \in 1 .. Len(Rows) :
    \E annual \in {12 * calculateMortgagePayment(eng.loanAmount,
                          eng.inputs.interestRate, eng.inputs.loanTermYears)} :
      /\ Rows[y].mortgagePayment = annual
      /\ Rows[y].totalOwnershipCost =
           annual + Rows[y].pmiPayment + Rows[y].propertyTax
             + Rows[y].insurance + Rows[y].maintenance + Rows[y].hoa
      /\ Rows[y].investmentValue =
           PerMille(InvestmentBefore(y), 1000 + eng.inputs.investmentReturn)
             + annual
             + (IF eng.inputs.downPaymentPercent < 200
                THEN PerMille(eng.loanAmount, eng.inputs.pmiRate) ELSE 0)
             + Rows[y].propertyTax + Rows[y].insurance + Rows[y].maintenance
             + Rows[y].hoa - Rows[y].rentPayment

\* C25 witness: a row of a year beyond the loan term that starts with a
\* balance of 0 and still records and charges the positive payment.
C25_Witness ==
  \E y \in 1 .. Len(Rows) :
    /\ y > eng.inputs.loanTermYears
    /\ BalanceBefore(y) = 0
    /\ Rows[y].mortgageInterestPaid = 0
    /\ Rows[y].mortgagePayment > 0
    /\ Rows[y].totalOwnershipCost > Rows[y].mortgagePayment

\* the input fields runMonteCarloSimulation perturbs
PerturbedFields == {"homeAppreciationRate", "rentGrowthRate", "investmentReturn"}

\* all three volatility inputs are 0
ZeroVolatility(monteCarloInputs) ==
  /\ monteCarloInputs.homePriceVolatility = 0
  /\ monteCarloInputs.rentVolatility = 0
  /\ monteCarloInputs.stockMarketVolatility = 0

\* C26: the inputs of a Monte Carlo run differ from the base inputs only in
\* homeAppreciationRate, rentGrowthRate and investmentReturn; when the three
\* volatilities are 0 and simulations >= 1, every run equals the base
\* projection and, in every year, all five percentiles of rentNetWorth and
\* of buyNetWorth equal the base row's rentNetWorth and buyNetWorth.
C26_OnlyThreeFieldsPerturbed ==
  (mc.pc \in {"run", "done"} /\ mc.i >= 1) =>
    /\ \A field \in (DOMAIN mc.inputs) \ PerturbedFields :
         mc.randomInputs[field] = mc.inputs[field]
    /\ ZeroVolatility(mc.monteCarloInputs) =>
         \E base \in {calculateRentVsBuy(mc.inputs)} :
           /\ mc.randomInputs = mc.inputs
           /\ \A k \in 1 .. Len(mc.simulations) : mc.simulations[k] = base
           /\ \A y \in 1 .. Len(mc.results) :
                LET row == base.yearlyProjections[y]
                    All(v) == [p10 |-> v, p25 |-> v, p50 |-> v, p75 |-> v,
                               p90 |-> v]
                IN  /\ mc.results[y].rentNetWorth = All(row.rentNetWorth)
                    /\ mc.results[y].buyNetWorth = All(row.buyNetWorth)

\* C26 witness: a returned summary of two runs with zero volatilities over
\* two or more years.
C26_Witness ==
  /\ mc.pc = "done"
  /\ mc.monteCarloInputs.simulations = 2
  /\ ZeroVolatility(mc.monteCarloInputs)
  /\ Len(mc.results) >= 2
  /\ mc.results[2].buyNetWorth.p10 = mc.simulations[2].yearlyProjections[2].buyNetWorth

\* the key of the parameter whose latest run is in sens.testInputs
LastSweptKey ==
  IF sens.d > 1 THEN parameters(sens.baseInputs)[sens.p].key
  ELSE parameters(sens.baseInputs)[sens.p - 1].key

\* C27: every sensitivity run differs from the base inputs only in the
\* swept parameter, so for each of the four parameters the entry at index 2
\* (delta 0) has the breakEvenYear and the final net-worth difference of
\* calculateRentVsBuy(baseInputs); a change made for one delta or one
\* parameter does not carry over to another run.
C27_RunsDifferOnlyInSweptParameter ==
  (sens.pc \in {"run", "done"} /\ (sens.d > 1 \/ sens.p > 1)) =>
    \E base \in {calculateRentVsBuy(sens.baseInputs)} :
      /\ \A field \in (DOMAIN sens.baseInputs) \ {LastSweptKey} :
           sens.testInputs[field] = sens.baseInputs[field]
      /\ \A k \in 1 .. Len(sens.analyses) :
           /\ sens.analyses[k].breakEvenYears[3] = base.breakEvenYear
           /\ sens.analyses[k].finalNetWorthDifferences[3]
                = base.netWorthDifference
      /\ Len(sens.breakEvenYears) >= 3 =>
           /\ sens.breakEvenYears[3] = base.breakEvenYear
           /\ sens.finalNetWorthDifferences[3] = base.netWorthDifference

\* C27 witness: a returned analysis of four parameters in which the runs
\* around the base run differ from it, and the base run of the last
\* parameter still has the base projection's net-worth difference.
C27_Witness ==
  /\ sens.pc = "done"
  /\ Len(sens.analyses) = 4
  /\ sens.analyses[1].finalNetWorthDifferences[2]
       # sens.analyses[1].finalNetWorthDifferences[3]
  /\ sens.analyses[4].finalNetWorthDifferences[5]
       # sens.analyses[4].finalNetWorthDifferences[3]
  /\ sens.analyses[4].finalNetWorthDifferences[3]
       = sens.analyses[1].finalNetWorthDifferences[3]
  /\ sens.testInputs.rentGrowthRate = sens.baseInputs.rentGrowthRate + 20

\* the rows of the same inputs run over a horizon of more years
RowsOverHorizon(timeHorizonYears) ==
  calculateRentVsBuy(
    [eng.inputs EXCEPT !.timeHorizonYears = timeHorizonYears]).yearlyProjections

\* C28: extending the horizon does not rewrite history: of two runs whose
\* inputs differ only in timeHorizonYears, H and H' > H (integers >= 1),
\* rows 1 .. H-1 are equal in every field and row H is equal in every field
\* except buyNetWorth, which is the net sale proceeds in the H run and the
\* home equity in the H' run.
C28_HorizonKeepsHistory ==
  eng.pc = "done" =>
    \A longer \in { RowsOverHorizon(timeHorizonYears) :
                      timeHorizonYears \in
                        (eng.inputs.timeHorizonYears + 1) .. (MaxHorizon + 1) } :
      LET H == eng.inputs.timeHorizonYears
      IN  /\ Len(Rows) = H
          /\ Len(longer) > H
          /\ \A y \in 1 .. H - 1 : Rows[y] = longer[y]
          /\ [Rows[H] EXCEPT !.buyNetWorth = 0]
               = [longer[H] EXCEPT !.buyNetWorth = 0]
          /\ Rows[H].buyNetWorth = Rows[H].netProceedsIfSold
          /\ longer[H].buyNetWorth = longer[H].homeEquity

\* C28 witness: a returned run over three years whose last row's
\* buyNetWorth, the net sale proceeds, lies below the home equity that the
\* longer run records for that year.
C28_Witness ==
  /\ eng.pc = "done"
  /\ eng.inputs.timeHorizonYears = 3
  /\ Len(Rows) = 3
  /\ Rows[3].buyNetWorth = Rows[3].netProceedsIfSold
  /\ Rows[3].buyNetWorth < Rows[3].homeEquity
  /\ Rows[2].buyNetWorth = Rows[2].homeEquity

\* the scenarios of the calculator store
Scenarios == IF "scenarios" \in DOMAIN app THEN app.scenarios ELSE << >>

\* C29: after any sequence of saveScenario, loadScenario, deleteScenario
\* and updateScenarioName, activeScenarioId is null or the id of a scenario
\* in the scenarios list; saveScenario without results and loadScenario of
\* an unknown id change nothing, and deleting the active scenario resets
\* activeScenarioId to null.
C29_ActiveScenarioListed ==
  "scenarios" \in DOMAIN app =>
    \/ app.activeScenarioId = Null
    \/ \E k \in 1 .. Len(app.scenarios) :
         app.scenarios[k].id = app.activeScenarioId

\* C29 witness: the first of two saved scenarios was deleted and
\* scenario 2, the one saved last, is still the active one.
C29_Witness ==
  /\ Len(Scenarios) = 1
  /\ Scenarios[1].id = 2
  /\ app.activeScenarioId = 2
  /\ app.clock = 3

\* C30: every scenario saved in the store holds results that are the
\* engine's output for the scenario's own inputs: after any interleaving of
\* updateInput, resetInputs, loadScenario, the Calculator's recomputation
\* and saveScenario, scenario.results is the projection of scenario.inputs
\* and has scenario.inputs.timeHorizonYears rows, also after an input
\* change for which the engine call fails.
C30_ScenarioResultsOfOwnInputs ==
  \A k \in 1 .. Len(Scenarios) :
    LET scenario == Scenarios[k]
    IN  /\ scenario.inputs \in AppInputs
        /\ Len(scenario.results.yearlyProjections)
             = scenario.inputs.timeHorizonYears
        /\ scenario.results =
             EnhancedResults(ProjectionOf[scenario.inputs],
                             scenario.results.monteCarloResults)

====
